---- MODULE Spec2Model ----
(***************************************************************************)
(* Model of build_viewer.py: the Assembler (build(), which reads the       *)
(* stylesheet, the JSON config and five modules and writes viewer.html)    *)
(* and the Bootstrap Resolver (the DOMContentLoaded handler that build()   *)
(* embeds in viewer.html, which resolves the configuration to render).     *)
(***************************************************************************)
EXTENDS Integers, Sequences, FiniteSets, TLC

(***************************************************************************)
(* Texts.  A text is a sequence of lexemes.  Each lexeme is one character, *)
(* except that the keyword null and the empty object {} each count as one  *)
(* lexeme.  " " is JSON whitespace; "nbsp" (U+00A0) is whitespace for      *)
(* String.prototype.trim but not for the JSON grammar.                     *)
(***************************************************************************)
MaxTextLen == 2

Alphabet == {" ", "nbsp", "0", "{}", "null"}

Texts == UNION {[1..n -> Alphabet] : n \in 0..MaxTextLen}

JsonWhitespace == {" "}

TrimWhitespace == {" ", "nbsp"}

RECURSIVE LStrip(_, _)
LStrip(t, ws) ==
    IF t # <<>> /\ Head(t) \in ws THEN LStrip(Tail(t), ws) ELSE t

RECURSIVE RStrip(_, _)
RStrip(t, ws) ==
    IF t # <<>> /\ t[Len(t)] \in ws
    THEN RStrip(SubSeq(t, 1, Len(t) - 1), ws)
    ELSE t

\* String.prototype.trim(): strips every leading and trailing white space
Trim(t) == RStrip(LStrip(t, TrimWhitespace), TrimWhitespace)

\* JSON number over the digit 0: a leading zero ends the number, so only "0"
IsNumber(s) == s = <<"0">>

\* The JSON document grammar: ws value ws
JsonBody(t) == RStrip(LStrip(t, JsonWhitespace), JsonWhitespace)

\* JSON.parse / resp.json() / json.loads accept t
JsonValid(t) ==
    \/ JsonBody(t) = <<"null">>
    \/ JsonBody(t) = <<"{}">>
    \/ IsNumber(JsonBody(t))

JsonNull == "null"

\* The value JSON.parse returns for a valid text, named by its canonical text
JsonParse(t) == JsonBody(t)[1]

\* A guard that lets every embedded value through, null included
TruthyAlways(v) == TRUE

\* JavaScript truthiness of a JSON value: null and 0 are falsy, {} is truthy
Truthy(v) == v \notin {"null", "0"}

(***************************************************************************)
(* Bootstrap Resolver: the page state                                      *)
(***************************************************************************)
VARIABLES
    configUrl,       \* urlParams.get('config')
    DEFAULT_CONFIG,  \* the embedded default, a JSON value
    pc,              \* position of the DOMContentLoaded handler
    started,         \* number of initApp invocations so far
    pending,         \* the initApp invocations awaiting their render
    renderer,        \* window.renderer: the engine constructed last
    setupScreen,     \* style of #setup-screen
    timers,          \* pending setTimeout callbacks (hide after fade)
    errorMsg,        \* #setup-error: textContent and style.display
    dragover,        \* dropZone has class dragover
    readers,         \* FileReader reads in progress
    console,         \* what was logged
    uncaught,        \* exceptions and rejections that no handler caught
    fetched,         \* history: outcome of the URL source
    auto,            \* history: the initApp calls of the auto-load chain
    latest,          \* history: the most recent initApp invocation
    rendered,        \* history: origins of the renders that succeeded
    event            \* history: what the most recent step handled

(***************************************************************************)
(* Assembler: the file system and the build() process                      *)
(***************************************************************************)
VARIABLES
    files,           \* path -> content, or Missing
    bpc,             \* position of build()
    css_content,
    config_content,
    js_content,
    jsIndex,         \* loop position in js_files
    stdout,          \* what build() printed
    exitStatus,      \* outcome seen by the invoking process
    runs,            \* completed runs of the build step
    writes           \* the successive contents written to OUTPUT_FILE

pageVars == <<configUrl, DEFAULT_CONFIG, pc, started, pending, renderer,
              setupScreen, timers, errorMsg, dragover, readers, console,
              uncaught, fetched, auto, latest, rendered, event>>

buildVars == <<files, bpc, css_content, config_content, js_content, jsIndex,
               stdout, exitStatus, runs, writes>>

vars == <<pageVars, buildVars>>

\* What no handler assigns
fixed == <<configUrl, DEFAULT_CONFIG, buildVars>>

\* What initApp assigns, or lets escape, before its first await
engine == <<started, pending, renderer, latest, errorMsg, console, uncaught>>

MaxLoads == 2

Messages == {"E1", "E2"}

NoParam == "<null>"

ConfigUrls == {NoParam, "remote.json"}

\* if (configUrl): null and '' are falsy
UrlTruthy(u) == u \notin {NoParam, ""}

\* What `new TableRenderer(config)` and the call of render() do synchronously
EngineStarts ==
    {[kind |-> "ok", msg |-> ""]}
    \cup {[kind |-> k, msg |-> m] : k \in {"ctor-throws", "render-throws"},
                                    m \in Messages}

\* How the promise render() returned settles
RenderOutcomes ==
    {[kind |-> "ok", msg |-> ""]}
    \cup {[kind |-> "rejects", msg |-> m] : m \in Messages}

NoError == [textContent |-> <<>>, display |-> "none"]

showError(msg) == [textContent |-> msg, display |-> "block"]

InitFailed(msg) == <<"Failed to initialize viewer: ", msg>>

\* JSON.parse(t): the value, or a SyntaxError
Parse(t) ==
    IF JsonValid(t) THEN [ok |-> TRUE, value |-> JsonParse(t)]
    ELSE [ok |-> FALSE, value |-> "SyntaxError"]

\* What the handlers compute from a text: JSON.parse of the text as it is,
\* and of the text trimmed
Reading(t) ==
    [parse |-> Parse(t), trimmed |-> Parse(Trim(t)),
     trimmedEmpty |-> Trim(t) = <<>>]

Readings == {Reading(t) : t \in Texts}

\* What a step handled: the interactive mechanism whose text it handled
\* ("" when none) with what that text is (valid JSON as it is, valid once
\* trimmed, empty once trimmed), and the e.message of the engine failure it
\* caught ("" when none)
Event(mech, r, failure) ==
    [mech |-> mech, valid |-> r.parse.ok, trimmedValid |-> r.trimmed.ok,
     trimmedEmpty |-> r.trimmedEmpty, failure |-> failure]

NoText == [parse |-> Parse(<<>>), trimmed |-> Parse(<<>>),
           trimmedEmpty |-> FALSE]

NoEvent == Event("", NoText, "")

NoEngine == [id |-> 0, origin |-> "", config |-> JsonNull, st |-> "none"]

\* The state of an invocation after the synchronous part of initApp
StartState(start) ==
    CASE start.kind = "ok" -> "rendering"
      [] start.kind = "ctor-throws" -> "threw"
      [] OTHER -> "rejected"

\* An initApp that clears the error element when the engine starts
initAppClearsError(config, origin, con, mech, r) ==
    \E start \in EngineStarts :
       LET id == started + 1
           me == [id |-> id, origin |-> origin, config |-> config,
                  st |-> StartState(start)]
       IN /\ started' = id
          /\ latest' = me
          /\ renderer' = IF start.kind = "ctor-throws" THEN renderer ELSE me
          /\ pending' = IF start.kind = "ok"
                        THEN pending \cup {[id |-> id, origin |-> origin,
                                            config |-> config]}
                        ELSE pending
          /\ errorMsg' = IF start.kind = "ok" THEN NoError
                         ELSE showError(InitFailed(start.msg))
          /\ console' = IF start.kind = "ok" THEN con
                        ELSE con \cup {"error: Initialization Failed:"}
          /\ uncaught' = uncaught
          /\ event' = Event(mech, r, start.msg)

\* An initApp without its try/catch: what the engine throws goes to the caller,
\* which does not await the promise
initAppUncaught(config, origin, con, mech, r) ==
    \E start \in EngineStarts :
       LET id == started + 1
           me == [id |-> id, origin |-> origin, config |-> config,
                  st |-> StartState(start)]
       IN /\ started' = id
          /\ latest' = me
          /\ renderer' = IF start.kind = "ctor-throws" THEN renderer ELSE me
          /\ pending' = IF start.kind = "ok"
                        THEN pending \cup {[id |-> id, origin |-> origin,
                                            config |-> config]}
                        ELSE pending
          /\ errorMsg' = errorMsg
          /\ console' = con
          /\ uncaught' = IF start.kind = "ok" THEN uncaught
                         ELSE uncaught \cup {start.msg}
          /\ event' = Event(mech, r, "")

\* initApp(config), up to its first await; con is the console so far, mech
\* and r the interactive text handled by the step that calls it
initApp(config, origin, con, mech, r) ==
    \E start \in EngineStarts :
       LET id == started + 1
           me == [id |-> id, origin |-> origin, config |-> config,
                  st |-> StartState(start)]
       IN /\ started' = id
          /\ latest' = me
          /\ renderer' = IF start.kind = "ctor-throws" THEN renderer ELSE me
          /\ pending' = IF start.kind = "ok"
                        THEN pending \cup {[id |-> id, origin |-> origin,
                                            config |-> config]}
                        ELSE pending
          /\ errorMsg' = IF start.kind = "ok" THEN errorMsg
                         ELSE showError(InitFailed(start.msg))
          /\ console' = IF start.kind = "ok" THEN con
                        ELSE con \cup {"error: Initialization Failed:"}
          /\ uncaught' = uncaught
          /\ event' = Event(mech, r, start.msg)

\* 3. Use Embedded Default: if (DEFAULT_CONFIG) initApp(DEFAULT_CONFIG)
EmbeddedDefault(con) ==
    IF Truthy(DEFAULT_CONFIG)
    THEN /\ initApp(DEFAULT_CONFIG, "embedded",
                    con \cup {"log: Using embedded default config"},
                    "", NoText)
         /\ auto' = Append(auto, [origin |-> "embedded",
                                  config |-> DEFAULT_CONFIG])
    ELSE /\ console' = con
         /\ event' = NoEvent
         /\ UNCHANGED <<started, pending, renderer, latest, errorMsg, auto,
                        uncaught>>

UrlWarning == "warn: URL config failed, trying local..."

UrlFailed == [status |-> "failed", config |-> JsonNull]

\* A handler that starts the fetch and goes on to the embedded default at once
DOMContentLoadedNoAwait ==
    /\ pc = "load"
    /\ IF UrlTruthy(configUrl)
       THEN pc' = "fetch" /\ EmbeddedDefault(console)
       ELSE pc' = "done" /\ EmbeddedDefault(console)
    /\ UNCHANGED <<fixed, fetched, setupScreen, timers, dragover, readers,
                   rendered>>

\* The handler runs: wires the listeners, then starts the auto-load chain
DOMContentLoaded ==
    /\ pc = "load"
    /\ IF UrlTruthy(configUrl)
       THEN pc' = "fetch" /\ event' = NoEvent /\ UNCHANGED <<engine, auto>>
       ELSE pc' = "done" /\ EmbeddedDefault(console)
    /\ UNCHANGED <<fixed, fetched, setupScreen, timers, dragover, readers,
                   rendered>>

\* await fetch(configUrl) settles; if (!resp.ok) throw
FetchSettle(outcome) ==
    /\ pc = "fetch"
    /\ IF outcome = "ok"
       THEN /\ pc' = "json"
            /\ event' = NoEvent
            /\ UNCHANGED <<fetched, engine, auto>>
       ELSE /\ pc' = "done"
            /\ fetched' = UrlFailed
            /\ EmbeddedDefault(console \cup {UrlWarning})
    /\ UNCHANGED <<fixed, setupScreen, timers, dragover, readers, rendered>>

\* A chain that prefers the embedded default to the URL configuration
JsonSettleDefaultFirst(r) ==
    /\ pc = "json"
    /\ pc' = "done"
    /\ IF r.parse.ok
       THEN /\ fetched' = [status |-> "ok", config |-> r.parse.value]
            /\ EmbeddedDefault(console)
       ELSE /\ fetched' = UrlFailed
            /\ EmbeddedDefault(console \cup {UrlWarning})
    /\ UNCHANGED <<fixed, setupScreen, timers, dragover, readers, rendered>>

\* await resp.json() settles on a body text that reads as r
JsonSettle(r) ==
    /\ pc = "json"
    /\ pc' = "done"
    /\ IF r.parse.ok
       THEN /\ fetched' = [status |-> "ok", config |-> r.parse.value]
            /\ initApp(r.parse.value, "url", console, "", NoText)
            /\ auto' = Append(auto, [origin |-> "url",
                                     config |-> r.parse.value])
       ELSE /\ fetched' = UrlFailed
            /\ EmbeddedDefault(console \cup {UrlWarning})
    /\ UNCHANGED <<fixed, setupScreen, timers, dragover, readers, rendered>>

\* The state of invocation p, which settles, in the record e of an invocation
Settle(e, p, st) == IF e.id = p.id THEN [e EXCEPT !.st = st] ELSE e

\* A continuation that fades the setup screen out whatever the outcome
RenderSettleHidesAlways(p, outcome) ==
    /\ p \in pending
    /\ pending' = pending \ {p}
    /\ setupScreen' = [setupScreen EXCEPT !.opacity = "0"]
    /\ timers' = timers + 1
    /\ IF outcome.kind = "ok"
       THEN /\ rendered' = rendered \cup {p.origin}
            /\ latest' = Settle(latest, p, "rendered")
            /\ renderer' = Settle(renderer, p, "rendered")
            /\ UNCHANGED <<errorMsg, console>>
       ELSE /\ errorMsg' = showError(InitFailed(outcome.msg))
            /\ console' = console \cup {"error: Initialization Failed:"}
            /\ latest' = Settle(latest, p, "rejected")
            /\ renderer' = Settle(renderer, p, "rejected")
            /\ UNCHANGED rendered
    /\ event' = Event("", NoText, outcome.msg)
    /\ UNCHANGED <<fixed, pc, fetched, started, dragover, readers, auto,
                   uncaught>>

\* await window.renderer.render(appContainer) settles for invocation p
RenderSettle(p, outcome) ==
    /\ p \in pending
    /\ pending' = pending \ {p}
    /\ IF outcome.kind = "ok"
       THEN /\ setupScreen' = [setupScreen EXCEPT !.opacity = "0"]
            /\ timers' = timers + 1
            /\ rendered' = rendered \cup {p.origin}
            /\ latest' = Settle(latest, p, "rendered")
            /\ renderer' = Settle(renderer, p, "rendered")
            /\ UNCHANGED <<errorMsg, console>>
       ELSE /\ errorMsg' = showError(InitFailed(outcome.msg))
            /\ console' = console \cup {"error: Initialization Failed:"}
            /\ latest' = Settle(latest, p, "rejected")
            /\ renderer' = Settle(renderer, p, "rejected")
            /\ UNCHANGED <<setupScreen, timers, rendered>>
    /\ event' = Event("", NoText, outcome.msg)
    /\ UNCHANGED <<fixed, pc, fetched, started, dragover, readers, auto,
                   uncaught>>

\* setTimeout(() => setupScreen.style.display = 'none', 300)
TimerFire ==
    /\ timers > 0
    /\ timers' = timers - 1
    /\ setupScreen' = [setupScreen EXCEPT !.display = "none"]
    /\ event' = NoEvent
    /\ UNCHANGED <<fixed, pc, fetched, engine, dragover, readers, auto,
                   rendered>>

\* The listeners are wired and the setup screen's controls receive events
\* (an element of opacity 0 still does; one of display none does not)
Reachable == pc # "load" /\ setupScreen.display # "none"

\* The loads started or about to start, which the model bounds
Loads == started + readers + (IF pc \in {"fetch", "json"} THEN 1 ELSE 0)

\* handleFile(file): reader.readAsText(file)
handleFile ==
    /\ Loads < MaxLoads
    /\ readers' = readers + 1

DragOver ==
    /\ Reachable
    /\ dragover' = TRUE
    /\ event' = NoEvent
    /\ UNCHANGED <<fixed, pc, fetched, engine, setupScreen, timers, readers,
                   auto, rendered>>

DragLeave ==
    /\ Reachable
    /\ dragover' = FALSE
    /\ event' = NoEvent
    /\ UNCHANGED <<fixed, pc, fetched, engine, setupScreen, timers, readers,
                   auto, rendered>>

\* drop on the drop zone; hasFile is e.dataTransfer.files.length > 0
Drop(hasFile) ==
    /\ Reachable
    /\ dragover' = FALSE
    /\ IF hasFile THEN handleFile ELSE UNCHANGED readers
    /\ event' = NoEvent
    /\ UNCHANGED <<fixed, pc, fetched, engine, setupScreen, timers, auto,
                   rendered>>

\* change on the file input; hasFile is e.target.files.length > 0
Change(hasFile) ==
    /\ Reachable
    /\ IF hasFile THEN handleFile ELSE UNCHANGED readers
    /\ event' = NoEvent
    /\ UNCHANGED <<fixed, pc, fetched, engine, setupScreen, timers, dragover,
                   auto, rendered>>

\* reader.onload with e.target.result a text that reads as r
ReaderOnload(r) ==
    /\ readers > 0
    /\ readers' = readers - 1
    /\ IF r.parse.ok
       THEN initApp(r.parse.value, "file", console, "file", r)
       ELSE /\ errorMsg' = showError(<<"Invalid JSON file">>)
            /\ event' = Event("file", r, "")
            /\ UNCHANGED <<started, pending, renderer, latest, console,
                           uncaught>>
    /\ UNCHANGED <<fixed, pc, fetched, setupScreen, timers, dragover, auto,
                   rendered>>

\* The read fails: no onerror handler is set, so nothing happens
ReaderError ==
    /\ readers > 0
    /\ readers' = readers - 1
    /\ event' = NoEvent
    /\ UNCHANGED <<fixed, pc, fetched, engine, setupScreen, timers, dragover,
                   auto, rendered>>

\* window.loadPastedConfig() with pasteArea.value a text that reads as r
loadPastedConfig(r) ==
    /\ Reachable
    /\ r.trimmed.ok => Loads < MaxLoads
    /\ IF r.trimmedEmpty
       THEN event' = Event("paste", r, "") /\ UNCHANGED engine
       ELSE IF r.trimmed.ok
       THEN initApp(r.trimmed.value, "paste", console, "paste", r)
       ELSE /\ errorMsg' = showError(<<"Invalid JSON text">>)
            /\ event' = Event("paste", r, "")
            /\ UNCHANGED <<started, pending, renderer, latest, console,
                           uncaught>>
    /\ UNCHANGED <<fixed, pc, fetched, setupScreen, timers, dragover,
                   readers, auto, rendered>>

(***************************************************************************)
(* Assembler                                                               *)
(***************************************************************************)
MaxRuns == 2

CSS_PATH == "css/table-renderer.css"

CONFIG_PATH == "configs/genome-data.config.json"

OUTPUT_FILE == "viewer.html"

js_files == <<"config-schema.js", "transformers.js", "kbase-client.js",
              "category-manager.js", "table-renderer.js">>

JsPaths == {js_files[i] : i \in 1..Len(js_files)}

Paths == {CSS_PATH, CONFIG_PATH, OUTPUT_FILE} \cup JsPaths

\* What open() finds at a path that cannot be read
Missing == <<"<missing>">>

CssTexts == {<<"css">>}

JsTexts == {<<"a">>, <<"b">>}

OldArtifacts == {<<"old artifact">>}

\* js_content += f"\n/* --- {js_file} --- */\n"
Marker(js_file) == <<"\n", "/* --- ", js_file, " --- */", "\n">>

\* A document that also carries the number of the run that wrote it
html_stamped(css, config, js) ==
    <<"<!DOCTYPE html>...<style>">> \o css
    \o <<"</style>...const DEFAULT_CONFIG = ">> \o config
    \o <<";">> \o js \o <<runs>>
    \o <<"document.addEventListener('DOMContentLoaded', ...)...</html>">>

\* The f-string: the document with the three texts interpolated
html_template(css, config, js) ==
    <<"<!DOCTYPE html>...<style>">> \o css
    \o <<"</style>...const DEFAULT_CONFIG = ">> \o config
    \o <<";">> \o js
    \o <<"document.addEventListener('DOMContentLoaded', ...)...</html>">>

\* The process ends: status is what the invoker sees
Exit(status) ==
    /\ bpc' = "idle"
    /\ exitStatus' = status
    /\ runs' = runs + 1

\* python build_viewer.py: __main__ calls build()
BuildStart ==
    /\ bpc = "idle"
    /\ runs < MaxRuns
    /\ bpc' = "css"
    /\ exitStatus' = "running"
    /\ stdout' = {"Building viewer.html..."}
    /\ css_content' = <<>>
    /\ config_content' = <<>>
    /\ js_content' = <<>>
    /\ jsIndex' = 0
    /\ UNCHANGED <<files, runs, writes>>
    /\ UNCHANGED pageVars

\* css_content = read_file(CSS_PATH); an exception here is not caught
ReadCss ==
    /\ bpc = "css"
    /\ IF files[CSS_PATH] = Missing
       THEN /\ Exit("failure")
            /\ UNCHANGED css_content
       ELSE /\ css_content' = files[CSS_PATH]
            /\ bpc' = "config"
            /\ UNCHANGED <<exitStatus, runs>>
    /\ UNCHANGED <<files, config_content, js_content, jsIndex, stdout, writes>>
    /\ UNCHANGED pageVars

\* try: read_file(CONFIG_PATH); json.loads(...)  except Exception: print; return
ReadConfig ==
    /\ bpc = "config"
    /\ IF files[CONFIG_PATH] = Missing \/ ~JsonValid(files[CONFIG_PATH])
       THEN /\ stdout' = stdout \cup {"Error reading config"}
            /\ Exit("success")
            /\ config_content' = IF files[CONFIG_PATH] = Missing
                                 THEN config_content
                                 ELSE files[CONFIG_PATH]
            /\ UNCHANGED <<js_content, jsIndex>>
       ELSE /\ config_content' = files[CONFIG_PATH]
            /\ js_content' = <<>>
            /\ jsIndex' = 1
            /\ bpc' = "js"
            /\ UNCHANGED <<stdout, exitStatus, runs>>
    /\ UNCHANGED <<files, css_content, writes>>
    /\ UNCHANGED pageVars

\* An iteration that puts the marker after the module it names
BundleJsMarkerAfter ==
    /\ bpc = "js"
    /\ jsIndex <= Len(js_files)
    /\ LET js_file == js_files[jsIndex]
       IN IF files[js_file] = Missing
          THEN /\ Exit("failure")
               /\ UNCHANGED <<js_content, jsIndex>>
          ELSE /\ js_content' = js_content \o files[js_file] \o <<"\n">>
                                 \o Marker(js_file)
               /\ jsIndex' = jsIndex + 1
               /\ UNCHANGED <<bpc, exitStatus, runs>>
    /\ UNCHANGED <<files, css_content, config_content, stdout, writes>>
    /\ UNCHANGED pageVars

\* One iteration of `for js_file in js_files`
BundleJs ==
    /\ bpc = "js"
    /\ jsIndex <= Len(js_files)
    /\ LET js_file == js_files[jsIndex]
           marked == js_content \o Marker(js_file)
       IN IF files[js_file] = Missing
          THEN /\ js_content' = marked
               /\ Exit("failure")
               /\ UNCHANGED jsIndex
          ELSE /\ js_content' = marked \o files[js_file] \o <<"\n">>
               /\ jsIndex' = jsIndex + 1
               /\ UNCHANGED <<bpc, exitStatus, runs>>
    /\ UNCHANGED <<files, css_content, config_content, stdout, writes>>
    /\ UNCHANGED pageVars

\* A write that does not wait for the loop over the modules to finish
WriteOutputEarly ==
    /\ bpc = "js"
    /\ LET html == html_template(css_content, config_content, js_content)
       IN /\ files' = [files EXCEPT ![OUTPUT_FILE] = html]
          /\ writes' = Append(writes, html)
    /\ stdout' = stdout \cup {"Successfully generated viewer.html"}
    /\ Exit("success")
    /\ UNCHANGED <<css_content, config_content, js_content, jsIndex>>
    /\ UNCHANGED pageVars

\* with open(OUTPUT_FILE, 'w') as f: f.write(html_template)
WriteOutput ==
    /\ bpc = "js"
    /\ jsIndex > Len(js_files)
    /\ LET html == html_template(css_content, config_content, js_content)
       IN /\ files' = [files EXCEPT ![OUTPUT_FILE] = html]
          /\ writes' = Append(writes, html)
    /\ stdout' = stdout \cup {"Successfully generated viewer.html"}
    /\ Exit("success")
    /\ UNCHANGED <<css_content, config_content, js_content, jsIndex>>
    /\ UNCHANGED pageVars

(***************************************************************************)
(* Specifications                                                          *)
(***************************************************************************)
\* The texts build() accepts as the config file, hence can embed
Embeddable == {t \in Texts : JsonValid(t)}

PageInit ==
    /\ configUrl \in ConfigUrls
    /\ DEFAULT_CONFIG \in {JsonParse(t) : t \in Embeddable}
    /\ pc = "load"
    /\ started = 0
    /\ pending = {}
    /\ renderer = NoEngine
    /\ setupScreen = [opacity |-> "", display |-> "flex"]
    /\ timers = 0
    /\ errorMsg = NoError
    /\ dragover = FALSE
    /\ readers = 0
    /\ console = {}
    /\ uncaught = {}
    /\ fetched = [status |-> "none", config |-> JsonNull]
    /\ auto = <<>>
    /\ latest = NoEngine
    /\ rendered = {}
    /\ event = NoEvent

BuildIdle ==
    /\ bpc = "idle"
    /\ css_content = <<>>
    /\ config_content = <<>>
    /\ js_content = <<>>
    /\ jsIndex = 0
    /\ stdout = {}
    /\ exitStatus = "none"
    /\ runs = 0
    /\ writes = <<>>

\* The artifact under study was built from sources that were all readable
Init ==
    /\ PageInit
    /\ BuildIdle
    /\ files = [p \in Paths |-> <<>>]

Next ==
    \/ DOMContentLoaded
    \/ \E o \in {"rejected", "not-ok", "ok"} : FetchSettle(o)
    \/ \E r \in Readings : JsonSettle(r)
    \/ \E p \in pending, o \in RenderOutcomes : RenderSettle(p, o)
    \/ TimerFire
    \/ DragOver
    \/ DragLeave
    \/ \E hasFile \in BOOLEAN : Drop(hasFile)
    \/ \E hasFile \in BOOLEAN : Change(hasFile)
    \/ \E r \in Readings : ReaderOnload(r)
    \/ ReaderError
    \/ \E r \in Readings : loadPastedConfig(r)

Spec == Init /\ [][Next]_vars

\* The browser runs the handler once the document is parsed, and every fetch,
\* body read and render that was started settles
Fairness ==
    /\ WF_vars(DOMContentLoaded)
    /\ WF_vars(\E o \in {"rejected", "not-ok", "ok"} : FetchSettle(o))
    /\ WF_vars(\E r \in Readings : JsonSettle(r))
    /\ WF_vars(\E p \in pending, o \in RenderOutcomes : RenderSettle(p, o))

LiveSpec == Spec /\ Fairness

BuildInit ==
    /\ BuildIdle
    /\ \E css \in CssTexts \cup {Missing},
          config \in Texts \cup {Missing},
          js \in [JsPaths -> JsTexts \cup {Missing}],
          out \in OldArtifacts \cup {Missing} :
          files = [p \in Paths |->
                     CASE p = CSS_PATH -> css
                       [] p = CONFIG_PATH -> config
                       [] p = OUTPUT_FILE -> out
                       [] OTHER -> js[p]]
    /\ configUrl = NoParam
    /\ DEFAULT_CONFIG = JsonNull
    /\ pc = "load"
    /\ started = 0
    /\ pending = {}
    /\ renderer = NoEngine
    /\ setupScreen = [opacity |-> "", display |-> "flex"]
    /\ timers = 0
    /\ errorMsg = NoError
    /\ dragover = FALSE
    /\ readers = 0
    /\ console = {}
    /\ uncaught = {}
    /\ fetched = [status |-> "none", config |-> JsonNull]
    /\ auto = <<>>
    /\ latest = NoEngine
    /\ rendered = {}
    /\ event = NoEvent

BuildNext ==
    \/ BuildStart
    \/ ReadCss
    \/ ReadConfig
    \/ BundleJs
    \/ WriteOutput

BuildSpec == BuildInit /\ [][BuildNext]_vars

(***************************************************************************)
(* Properties of the Bootstrap Resolver (checked under Spec)               *)
(***************************************************************************)
\* The setup surface is shown: neither faded out nor removed from display
Visible == setupScreen.opacity # "0" /\ setupScreen.display # "none"

\* No fetch, file read or render is pending
Quiet == pc \notin {"fetch", "json"} /\ readers = 0 /\ pending = {}

Interactive == {"file", "paste"}

\* C1: once the URL source has resolved to a JSON value, the auto-load chain
\* has called initApp exactly once, with that value, and it never calls
\* initApp with the embedded default, whatever the engine then does.
C1_UrlConfigWins ==
    fetched.status = "ok" =>
        auto = <<[origin |-> "url", config |-> fetched.config]>>

\* The URL configuration's engine failed although a usable default is embedded
C1_Witness ==
    /\ fetched.status = "ok"
    /\ Truthy(DEFAULT_CONFIG)
    /\ latest.origin = "url"
    /\ latest.st = "rejected"
    /\ Quiet

\* C3: after every step in which an engine failure is caught (constructor
\* throw or render rejection, for any load), the setup surface is visible and
\* shows that failure's message.
C3_FailureReturnsToSetup ==
    event.failure # "" =>
        /\ Visible
        /\ errorMsg.display = "block"
        /\ errorMsg.textContent = InitFailed(event.failure)

\* C5: with no config parameter and a null embedded default, the auto-load
\* chain calls initApp never, and the setup surface is visible in every state
\* until the render of an interactive submission has succeeded.
C5_SetupUntilInteractiveRender ==
    (configUrl = NoParam /\ DEFAULT_CONFIG = JsonNull) =>
        /\ auto = <<>>
        /\ Visible \/ rendered \cap Interactive # {}

\* The setup surface was left after an interactive render, with no default
C5_Witness ==
    /\ configUrl = NoParam
    /\ DEFAULT_CONFIG = JsonNull
    /\ pc = "done"
    /\ ~Visible
    /\ Quiet

\* C6: whenever nothing is in flight the application is either rendered (setup
\* surface hidden, the most recently started load rendered) or waiting (setup
\* surface visible), never hidden with the engine constructed last failed.
C6_TwoTerminalStates ==
    Quiet =>
        /\ Visible \/ latest.st = "rendered"
        /\ ~(~Visible /\ renderer.st = "rejected")

\* C2: when the URL source fails (fetch rejected, non-success status, body not
\* JSON), the chain goes on to the embedded default and calls initApp with it
\* whenever it is present (not null); the step that handles the failure logs
\* the warning and changes the error element only for an engine failure of
\* the default's own load.
C2_UrlFailureFallsThrough ==
    /\ [](fetched.status = "failed" /\ DEFAULT_CONFIG # JsonNull =>
             auto = <<[origin |-> "embedded", config |-> DEFAULT_CONFIG]>>)
    /\ [][fetched.status # "failed" /\ fetched'.status = "failed" =>
             /\ UrlWarning \in console'
             /\ errorMsg' = errorMsg \/ event'.failure # ""]_vars

\* A step in which the render of an invocation succeeds
RenderSucceeds == pending' # pending /\ pending' \subseteq pending
                  /\ event'.failure = ""

\* C4: a step that handles an interactive text (dropped file, picked file or
\* paste) that is not valid JSON starts no render, leaves the setup surface as
\* it is and leaves an error displayed; a step that handles valid JSON invokes
\* initApp, however many texts were refused before; and a render that
\* succeeds fades the setup surface out.
C4_InvalidTextShowsError ==
    [][/\ event'.mech # "" /\ ~event'.valid =>
            /\ started' = started
            /\ pending' = pending
            /\ setupScreen' = setupScreen
            /\ errorMsg'.display = "block"
       /\ event'.mech # "" /\ event'.valid =>
            /\ started' = started + 1
            /\ latest'.origin = event'.mech
       /\ RenderSucceeds => setupScreen'.opacity = "0"]_vars


\* C11: a load triggered while an earlier one awaits its fetch or render
\* cancels and replaces it: never are two renders in flight, the URL load is
\* dropped once an interactive load has started, and when nothing is in flight
\* the engine in window.renderer is the last-triggered load's, whose outcome
\* alone decides whether the setup surface is hidden.
C11_CancelAndReplace ==
    /\ Cardinality(pending) <= 1
    /\ (latest.origin = "url" /\ started > 1) => latest.id = 1
    /\ (Quiet /\ started > 0) =>
          /\ latest.st # "threw" => renderer.id = latest.id
          /\ ~Visible => latest.st = "rendered"

\* C12: an interactive mechanism starts a load (a file read or an initApp call)
\* only once the auto-load chain has finished without calling initApp.
C12_InteractiveAfterAutoChain ==
    (readers > 0 \/ latest.origin \in Interactive) =>
        (pc = "done" /\ auto = <<>>)

\* C13: the auto-load chain calls initApp at most once and not before it has
\* finished with the URL source: with the URL configuration if the fetch and
\* the parse succeeded, otherwise with the embedded default if it is present
\* (not null), otherwise not at all.
C13_AutoChainOnce ==
    /\ Len(auto) <= 1
    /\ pc # "done" => auto = <<>>
    /\ pc = "done" =>
          auto = IF fetched.status = "ok"
                 THEN <<[origin |-> "url", config |-> fetched.config]>>
                 ELSE IF DEFAULT_CONFIG # JsonNull
                 THEN <<[origin |-> "embedded", config |-> DEFAULT_CONFIG]>>
                 ELSE <<>>

\* C14: when the chain has finished and the URL source was absent or failed,
\* initApp was called with the embedded default exactly when that default is
\* not null, whatever non-null JSON value it is.
C14_EveryNonNullDefaultUsed ==
    (pc = "done" /\ fetched.status \in {"none", "failed"}) =>
        /\ (auto = <<>>) <=> (DEFAULT_CONFIG = JsonNull)
        /\ \A i \in 1..Len(auto) : auto[i].config = DEFAULT_CONFIG

\* C15: whatever the mechanism (file or paste), a step that handles a text
\* starts a render exactly when the text is valid JSON, and otherwise displays
\* an error and leaves the setup surface as it is; the outcome depends on the
\* text alone, blank text included.
C15_MechanismsEquivalent ==
    [][event'.mech # "" =>
          /\ (started' = started + 1) <=> event'.valid
          /\ ~event'.valid =>
                /\ started' = started
                /\ errorMsg'.display = "block"
                /\ errorMsg'.textContent # <<>>
                /\ setupScreen' = setupScreen]_vars

\* C16: no exception or rejection escapes the load path: nothing is ever
\* uncaught, a failure of the URL source has been logged as the warning of its
\* catch clause, and a failure of the engine as the error of initApp's.
C16_FailuresContained ==
    /\ uncaught = {}
    /\ fetched.status = "failed" => UrlWarning \in console
    /\ latest.st \in {"threw", "rejected"} =>
          "error: Initialization Failed:" \in console

\* The URL source failed, the engine failed for the embedded default, and a
\* file that is not valid JSON was refused
C16_Witness ==
    /\ fetched.status = "failed"
    /\ latest.origin = "embedded"
    /\ latest.st \in {"threw", "rejected"}
    /\ event.mech = "file"
    /\ ~event.valid
    /\ errorMsg.textContent = <<"Invalid JSON file">>

\* The auto-load chain has ended and the render it started, if any, settled
AutoSettled ==
    /\ pc = "done"
    /\ \A p \in pending : p.origin \notin {"url", "embedded"}

\* C17: when every fetch and render that was started settles, the auto-load
\* chain eventually ends with the render it started settled, in a state where
\* an engine has rendered a configuration or the setup surface is visible; and
\* as long as the URL fetch has not settled the chain has not tried the
\* embedded default.
C17_ResolutionTerminates ==
    /\ <>(AutoSettled /\ (rendered # {} \/ Visible))
    /\ [](pc \in {"fetch", "json"} => auto = <<>>)

\* The chain has ended on the embedded default, rendered after the URL failed
C17_Witness ==
    /\ AutoSettled
    /\ fetched.status = "failed"
    /\ auto # <<>>
    /\ "embedded" \in rendered
    /\ ~Visible

\* C18: whenever the setup surface is fading or hidden, a render has succeeded
\* before; the only step that sets its opacity is one in which a render
\* succeeds, and the only step that sets its display is the timer such a step
\* armed.
C18_HiddenOnlyAfterSuccess ==
    /\ [](~Visible => rendered # {})
    /\ [][/\ setupScreen'.opacity # setupScreen.opacity => RenderSucceeds
          /\ setupScreen'.display # setupScreen.display =>
                /\ timers' = timers - 1
                /\ setupScreen.opacity = "0"
                /\ UNCHANGED engine]_vars

\* The surface is hidden although the load started last has failed
C18_Witness ==
    /\ setupScreen = [opacity |-> "0", display |-> "none"]
    /\ latest.st \in {"threw", "rejected"}
    /\ errorMsg.display = "block"

\* The text showError is called with by the step just taken (<<>> when it is
\* not called): an engine failure, a file or a pasted text that does not parse
ShownBy(e) ==
    IF e.failure # "" THEN InitFailed(e.failure)
    ELSE IF e.mech = "file" /\ ~e.valid THEN <<"Invalid JSON file">>
    ELSE IF e.mech = "paste" /\ ~e.trimmedEmpty /\ ~e.trimmedValid
    THEN <<"Invalid JSON text">>
    ELSE <<>>

\* C19: a step changes the error element only by showError, to the text of the
\* failure the step reports, displayed; every other step (a load starting, a
\* text parsing, a render succeeding, the fade) leaves it as it is, so an
\* error once displayed stays displayed.
C19_ErrorElementFrame ==
    [][/\ IF ShownBy(event') # <<>>
          THEN errorMsg' = [textContent |-> ShownBy(event'),
                            display |-> "block"]
          ELSE errorMsg' = errorMsg
       /\ errorMsg.display = "block" => errorMsg'.display = "block"]_vars

\* The error of a refused paste is still displayed while a later valid
\* submission is rendering
C19_Witness ==
    /\ errorMsg = [textContent |-> <<"Invalid JSON text">>, display |-> "block"]
    /\ latest.origin \in Interactive
    /\ latest.st = "rendering"

(***************************************************************************)
(* Properties of the Assembler (checked under BuildSpec)                   *)
(***************************************************************************)
\* Every read of build() succeeds and the config text is valid JSON
InputsOk ==
    /\ files[CSS_PATH] # Missing
    /\ files[CONFIG_PATH] # Missing
    /\ JsonValid(files[CONFIG_PATH])
    /\ \A f \in JsPaths : files[f] # Missing

\* The config file is missing, unreadable or not valid JSON
ConfigBad == files[CONFIG_PATH] = Missing \/ ~JsonValid(files[CONFIG_PATH])

\* What the loop adds for one module: its marker, its content, a newline
Segment(f) == Marker(f) \o files[f] \o <<"\n">>

\* The five modules in the fixed order, each once after its own marker
Bundle ==
    Segment("config-schema.js") \o Segment("transformers.js")
    \o Segment("kbase-client.js") \o Segment("category-manager.js")
    \o Segment("table-renderer.js")

\* C7: when an input cannot be read or the config text is not valid JSON, no
\* step of build() writes the output path (nothing is created there, what is
\* there stays as it is); and a step that writes does so after the stylesheet,
\* the validated config and all five modules have been read.
C7_NoWriteOnFailure ==
    [][/\ ~InputsOk =>
            /\ writes' = <<>>
            /\ files'[OUTPUT_FILE] = files[OUTPUT_FILE]
       /\ writes' # writes =>
            /\ css_content = files[CSS_PATH]
            /\ config_content = files[CONFIG_PATH]
            /\ JsonValid(config_content)
            /\ jsIndex > Len(js_files)
            /\ InputsOk]_vars

\* A run ended at the last module, which cannot be read, after every other
\* read succeeded; the old artifact is still there
C7_Witness ==
    /\ bpc = "idle"
    /\ runs > 0
    /\ jsIndex = Len(js_files)
    /\ files[js_files[jsIndex]] = Missing
    /\ files[OUTPUT_FILE] \in OldArtifacts
    /\ writes = <<>>

\* C8: the invoker sees success only when every read and the validation
\* succeeded, and sees a failure whenever the run ended on a config file that
\* is missing, unreadable or not valid JSON.
C8_ConfigFailureIsHardStop ==
    /\ exitStatus = "success" => InputsOk
    /\ (bpc = "idle" /\ runs > 0 /\ files[CSS_PATH] # Missing /\ ConfigBad) =>
           exitStatus = "failure"

\* C9: once the loop over the modules has finished, the concatenated text is
\* the five modules' contents in the fixed order, each exactly once and each
\* right after the marker that names it, and that is the text written.
C9_ModulesInOrder ==
    /\ jsIndex > Len(js_files) => js_content = Bundle
    /\ \A i \in 1..Len(writes) :
          writes[i] = html_template(files[CSS_PATH], files[CONFIG_PATH],
                                    Bundle)

\* A build succeeded on modules whose contents differ from one to the next
C9_Witness ==
    /\ bpc = "idle"
    /\ exitStatus = "success"
    /\ writes # <<>>
    /\ \A i \in 1..(Len(js_files) - 1) :
          files[js_files[i]] # files[js_files[i + 1]]

\* C10: every run that writes, writes the same document, which is the
\* template applied to the three inputs' contents and nothing else, and after
\* a write the output path holds that document.
C10_Idempotent ==
    /\ \A i, j \in 1..Len(writes) : writes[i] = writes[j]
    /\ \A i \in 1..Len(writes) :
          /\ writes[i] = html_template(files[CSS_PATH], files[CONFIG_PATH],
                                       Bundle)
          /\ files[OUTPUT_FILE] = writes[i]

\* The second run in a row has overwritten the first run's artifact
C10_Witness ==
    /\ bpc = "idle"
    /\ Len(writes) = 2
    /\ files[OUTPUT_FILE] = writes[2]

====
